---- MODULE Spec2Model ----
(***************************************************************************)
(* Legal document manager: the document generator, the document analyzer,  *)
(* the case manager and the facade that composes them.                     *)
(*                                                                         *)
(* JavaScript strings are TLA+ strings; a character is a string of length  *)
(* one.  Dates are the integer reading of a clock.  uuidv4() is a fresh    *)
(* identifier drawn from a counter.  A JavaScript exception is the value   *)
(* of the variable err after the call.                                     *)
(***************************************************************************)
EXTENDS Integers, Sequences, FiniteSets, TLC

\* ------------------------------------------------------------------ bounds
MaxTime == 1
MaxVersion == 3
MaxGenerated == 1
MaxCases == 1
MaxDocs == 1

\* ------------------------------------------------------------ JS strings
At(s, i) == SubSeq(s, i, i)

UpperLetters == "ABCDEFGHIJKLMNOPQRSTUVWXYZ"
LowerLetters == "abcdefghijklmnopqrstuvwxyz"
Digits == "0123456789"

CharsOf(alphabet) == {At(alphabet, i) : i \in 1..Len(alphabet)}

UpperSet == CharsOf(UpperLetters)
WordCharSet == CharsOf(LowerLetters) \cup CharsOf(UpperLetters) \cup CharsOf(Digits) \cup {"_"}

LowerTable ==
  [c \in UpperSet |->
    At(LowerLetters, CHOOSE i \in 1..Len(UpperLetters) : At(UpperLetters, i) = c)]

\* String.prototype.toLowerCase, one character
LowerChar(c) == IF c \in UpperSet THEN LowerTable[c] ELSE c

\* s from position from on, with the characters at the positions ups (its upper
\* case letters, all at or after from) replaced by their lower case
RECURSIVE LowerFrom(_, _, _)
LowerFrom(s, ups, from) ==
  IF ups = {} THEN SubSeq(s, from, Len(s))
  ELSE LET first == CHOOSE i \in ups : \A j \in ups : i <= j
       IN SubSeq(s, from, first - 1) \o LowerTable[At(s, first)]
            \o LowerFrom(s, ups \ {first}, first + 1)

\* String.prototype.toLowerCase
ToLowerCase(s) == LowerFrom(s, {i \in 1..Len(s) : At(s, i) \in UpperSet}, 1)

\* String.prototype.includes
Includes(s, t) ==
  LET n == Len(t)
  IN \E i \in 1..(Len(s) - n + 1) : SubSeq(s, i, i + n - 1) = t

\* the regular expression class \s, on the characters the texts use
IsSpace(c) == c \in {" ", "\t", "\n"}

\* the regular expression class \w
IsWordChar(c) == c \in WordCharSet

\* the first position from i on, going by step, that holds no whitespace
RECURSIVE SkipSpace(_, _, _)
SkipSpace(s, i, step) ==
  IF i >= 1 /\ i <= Len(s) /\ IsSpace(At(s, i)) THEN SkipSpace(s, i + step, step) ELSE i

\* String.prototype.trim
Trim(s) ==
  LET lo == SkipSpace(s, 1, 1)
      hi == SkipSpace(s, Len(s), -1)
  IN IF lo > hi THEN "" ELSE SubSeq(s, lo, hi)

\* s.split(sep) for a separator that is one character of seps: the pieces
\* between consecutive separators, one more piece than there are separators
SplitOn(s, seps) ==
  LET cuts == {i \in 1..Len(s) : At(s, i) \in seps}
      n == Cardinality(cuts)
      \* the k-th separator from the left; 0 and Len(s) + 1 stand before and after
      Cut(k) == IF k = 0 THEN 0
                ELSE IF k = n + 1 THEN Len(s) + 1
                ELSE CHOOSE i \in cuts : Cardinality({j \in cuts : j <= i}) = k
  IN [k \in 1..(n + 1) |-> SubSeq(s, Cut(k - 1) + 1, Cut(k) - 1)]

\* s.split(/\s+/).length: one more than the number of maximal whitespace runs
WordCount(s) ==
  1 + Cardinality({i \in 1..Len(s) :
        IsSpace(At(s, i)) /\ (i = 1 \/ ~IsSpace(At(s, i - 1)))})

\* Array.prototype.join
RECURSIVE Join(_, _)
Join(q, sep) ==
  IF q = <<>> THEN ""
  ELSE IF Len(q) = 1 THEN q[1]
  ELSE q[1] \o sep \o Join(Tail(q), sep)

\* Array.prototype.slice(0, n)
SliceTo(q, n) == SubSeq(q, 1, IF Len(q) < n THEN Len(q) ELSE n)

\* --------------------------------------------------------------- JS values
\* undefined, where a string is expected (an option or a field left out)
Undefined == "<undefined>"

\* a property read o[k] of an object whose values are strings
Get(o, k) == IF k \in DOMAIN o THEN o[k] ELSE Undefined

\* ToBoolean of a string or undefined: the left side of  x || y
Truthy(v) == v # Undefined /\ v # ""

Or(v, w) == IF Truthy(v) THEN v ELSE w

\* null
Null == [null |-> TRUE]

\* an object with no properties:  {}
EmptyObject == [k \in {} |-> ""]

\* { ...a, ...b }
Spread(a, b) ==
  [k \in DOMAIN a \cup DOMAIN b |-> IF k \in DOMAIN b THEN b[k] ELSE a[k]]

\* uuidv4(): the n-th identifier handed out
Uuid(prefix, n) == prefix \o ToString(n)

VARIABLES
  templates,   \* DocumentGenerator.templates: type -> [title, sections]
  held,        \* the document object the caller of generate() holds, or null
  documents,   \* LegalDocumentManager.documents: id -> document object
  cases,       \* CaseManager.cases: id -> case object
  caseDocuments, \* CaseManager.caseDocuments: id -> list
  caseChats,   \* CaseManager.caseChats: id -> list
  facadeCases, \* LegalDocumentManager.cases: the ids of the Map's entries
  now,         \* the clock new Date() reads
  nextDoc,     \* how many document ids uuidv4() has handed out
  nextCase,    \* how many case ids uuidv4() has handed out
  call,        \* the last call made: its operation and arguments
  err,         \* "" when the last call returned, else the message of its Error
  result       \* what the last call returned

vars == <<templates, held, documents, cases, caseDocuments, caseChats,
          facadeCases, now, nextDoc, nextCase, call, err, result>>

\* --------------------------------------------------------- DocumentGenerator
\* constructor: this.templates
InitialTemplates ==
  [t \in {"contract", "brief", "memo", "complaint", "agreement"} |->
    CASE t = "contract" ->
           [title |-> "Legal Contract",
            sections |-> <<"Header", "Parties", "Terms", "Conditions", "Signatures">>]
      [] t = "brief" ->
           [title |-> "Legal Brief",
            sections |-> <<"Title", "Statement of Facts", "Legal Issues",
                           "Arguments", "Conclusion">>]
      [] t = "memo" ->
           [title |-> "Legal Memorandum",
            sections |-> <<"To", "From", "Date", "Subject", "Issue", "Analysis",
                           "Conclusion">>]
      [] t = "complaint" ->
           [title |-> "Legal Complaint",
            sections |-> <<"Heading", "Introduction", "Jurisdiction", "Parties",
                           "Facts", "Claims", "Prayer for Relief">>]
      [] t = "agreement" ->
           [title |-> "Agreement",
            sections |-> <<"Preamble", "Recitals", "Terms and Conditions",
                           "Signatures">>]]

\* keys every object literal inherits from Object.prototype: this.templates[k]
\* is then a function or an object that has neither title nor sections
ObjectPrototypeKeys ==
  {"constructor", "toString", "valueOf", "hasOwnProperty", "__proto__"}

\* a placeholder that leaves the brackets out
PlaceholderUnbracketed(section) == "Add " \o section \o " content here"

\* the placeholder of a section the caller gave no content for
Placeholder(section) == "[Add " \o section \o " content here]"

\* _generateContent(template, contentData); sections is the object's entries in
\* insertion order, which is the order Object.values and Object.entries read
_generateContent(template, contentData, clock) ==
  [title |-> Or(Get(contentData, "title"), template.title),
   sections |->
     [defined |-> TRUE,
      entries |->
        [i \in 1..Len(template.sections) |->
          [heading |-> template.sections[i],
           content |-> Or(Get(contentData, template.sections[i]),
                          Placeholder(template.sections[i])),
           timestamp |-> clock]]]]

\* the document object generate builds from the template found
NewDocument(template, documentType, options, id, clock) ==
  [id |-> id,
   name |-> <<template.title, options.timestamp>>,
   type |-> documentType,
   caseId |-> options.caseId,
   template |-> template,
   content |-> _generateContent(template, options.content, clock),
   metadata |-> [created |-> options.timestamp,
                 modified |-> options.timestamp,
                 author |-> Or(Get(options.content, "author"), "System"),
                 status |-> "draft"],
   version |-> 1,
   tags |-> <<>>,
   analysis |-> Null]

\* a generate that falls back to the memo template for a type it does not know
generateDefaulting(options, id, clock) ==
  LET documentType == IF options.documentType \in DOMAIN templates
                        THEN options.documentType ELSE "memo"
  IN [error |-> "", uuids |-> 1,
      document |-> NewDocument(templates[documentType], documentType, options, id, clock)]

\* generate(options) with uuidv4() = id, at time clock: the message of the Error
\* it throws or the document it returns, and how many times it called uuidv4()
generate(options, id, clock) ==
  LET documentType == IF options.documentType = Undefined THEN "memo"
                      ELSE options.documentType
  IN
  IF documentType \notin DOMAIN templates /\ documentType \notin ObjectPrototypeKeys
    THEN [error |-> "Unknown document type: " \o documentType, uuids |-> 0]
  ELSE IF documentType \notin DOMAIN templates
    \* template.sections is undefined: _generateContent throws
    THEN [error |-> "Cannot read properties of undefined (reading 'forEach')",
          uuids |-> 1]
  ELSE
    [error |-> "", uuids |-> 1,
     document |-> NewDocument(templates[documentType], documentType, options, id, clock)]

\* an updateDocument that rebuilds the metadata and so restamps created
updateDocumentRestamping(document, updates, clock) ==
  [document EXCEPT
     !.content = Spread(document.content, updates),
     !.metadata = [@ EXCEPT !.created = clock, !.modified = clock],
     !.version = document.version + 1]

\* updateDocument(document, updates) at time clock
updateDocument(document, updates, clock) ==
  [document EXCEPT
     !.content = Spread(document.content, updates),
     !.metadata.modified = clock,
     !.version = document.version + 1]

\* ---------------------------------------------------------- DocumentAnalyzer
\* constructor: this.legalKeywords, its entries in insertion order
legalKeywords ==
  << [category |-> "obligations",
      keywords |-> <<"must", "shall", "required to", "obligated to">>],
     [category |-> "rights",
      keywords |-> <<"may", "entitled to", "has the right to", "can">>],
     [category |-> "penalties",
      keywords |-> <<"penalty", "fine", "breach", "violation", "damages">>],
     [category |-> "dates",
      keywords |-> <<"on or before", "within", "by", "effective date", "expiration">>],
     [category |-> "parties",
      keywords |-> <<"party", "parties", "hereinafter", "referred to as">>] >>

\* _extractAllText(document): the title, then each section's content after a blank
_extractAllText(document) ==
  LET sections == document.content["sections"].entries
      F[i \in 0..Len(sections)] ==
        IF i = 0 THEN Or(document.content["title"], "")
        ELSE F[i - 1] \o " " \o Or(sections[i].content, "")
  IN F[Len(sections)]

\* _generateSummary(document)
_generateSummary(document) ==
  LET contentText == _extractAllText(document)
      sentences == SelectSeq(SplitOn(contentText, {"."}), LAMBDA x : Len(Trim(x)) > 0)
  IN [text |-> Join(SliceTo(sentences, 3), ". "),
      wordCount |-> WordCount(contentText),
      sentenceCount |-> Len(sentences),
      characterCount |-> Len(contentText)]

\* the (category, keyword) pairs in the order the nested forEach visits them
KeywordPairs ==
  LET F[i \in 0..Len(legalKeywords)] ==
        IF i = 0 THEN <<>>
        ELSE F[i - 1] \o [j \in 1..Len(legalKeywords[i].keywords) |->
                           [category |-> legalKeywords[i].category,
                            keyword |-> legalKeywords[i].keywords[j]]]
  IN F[Len(legalKeywords)]

\* the key points one sentence contributes
SentenceKeyPoints(sentence) ==
  LET lowered == ToLowerCase(sentence)
      trimmed == Trim(sentence)
      F[j \in 0..Len(KeywordPairs)] ==
        IF j = 0 THEN <<>>
        ELSE IF Includes(lowered, KeywordPairs[j].keyword)
          THEN Append(F[j - 1], [category |-> KeywordPairs[j].category,
                                 text |-> trimmed,
                                 importance |-> "high"])
          ELSE F[j - 1]
  IN F[Len(KeywordPairs)]

\* _extractKeyPoints(document)
_extractKeyPoints(document) ==
  LET sentences == SplitOn(_extractAllText(document), {"."})
      F[i \in 0..Len(sentences)] ==
        IF i = 0 THEN <<>> ELSE F[i - 1] \o SentenceKeyPoints(sentences[i])
  IN SliceTo(F[Len(sentences)], 10)

\* _extractLegalTerms: commonLegalTerms
commonLegalTerms ==
  <<"agreement", "contract", "party", "obligation", "breach",
    "indemnify", "liability", "damages", "force majeure",
    "arbitration", "governing law", "jurisdiction",
    "entire agreement", "amendment", "severability">>

\* the regular expression assertion \b between characters p - 1 and p of text
WordBoundary(text, p) ==
  LET before == p - 1 >= 1 /\ p - 1 <= Len(text) /\ IsWordChar(At(text, p - 1))
      after == p >= 1 /\ p <= Len(text) /\ IsWordChar(At(text, p))
  IN before # after

\* the number of matches a global regular expression finds among the candidate
\* start positions: the leftmost one at or after from, then on from its end
RECURSIVE CountMatches(_, _, _)
CountMatches(candidates, n, from) ==
  LET open == {i \in candidates : i >= from}
      first == CHOOSE i \in open : \A j \in open : i <= j
  IN IF open = {} THEN 0 ELSE 1 + CountMatches(candidates, n, first + n)

\* _countOccurrences(text, word): the number of matches of /\bword\b/gi
_countOccurrences(text, word) ==
  LET t == ToLowerCase(text)
      w == ToLowerCase(word)
      n == Len(w)
      candidates == {i \in 1..(Len(t) - n + 1) :
                       /\ SubSeq(t, i, i + n - 1) = w
                       /\ WordBoundary(t, i)
                       /\ WordBoundary(t, i + n)}
  IN CountMatches(candidates, n, 1)

\* the comparator of foundTerms.sort: a negative, zero or positive number
CompareTerms(a, b) == b.occurrences - a.occurrences

\* Array.prototype.sort with CompareTerms; the sort is stable, so it is the
\* insertion of each entry after the entries that do not compare greater
SortTerms(found) ==
  LET Insert(sorted, e) ==
        LET keep == {k \in 1..Len(sorted) : CompareTerms(sorted[k], e) <= 0}
            \* the entries that stay in front of e form a prefix
            at == IF \A k \in 1..Len(sorted) : k \in keep THEN Len(sorted)
                  ELSE (CHOOSE k \in 1..Len(sorted) :
                          k \notin keep /\ \A j \in 1..(k - 1) : j \in keep) - 1
        IN SubSeq(sorted, 1, at) \o <<e>> \o SubSeq(sorted, at + 1, Len(sorted))
      F[i \in 0..Len(found)] ==
        IF i = 0 THEN <<>> ELSE Insert(F[i - 1], found[i])
  IN F[Len(found)]

\* whether _extractLegalTerms lists the term for the lowercased text
TermFound(contentText, term) == Includes(contentText, term)

\* _extractLegalTerms(document)
_extractLegalTerms(document) ==
  LET contentText == ToLowerCase(_extractAllText(document))
      F[i \in 0..Len(commonLegalTerms)] ==
        IF i = 0 THEN <<>>
        ELSE IF TermFound(contentText, commonLegalTerms[i])
          THEN Append(F[i - 1],
                      [term |-> commonLegalTerms[i],
                       occurrences |-> _countOccurrences(contentText, commonLegalTerms[i])])
          ELSE F[i - 1]
  IN SortTerms(F[Len(commonLegalTerms)])

\* the isEmpty flag of _analyzeStructure
IsPlaceholderText(text) == Includes(text, "[Add") /\ Includes(text, "here]")

\* _analyzeStructure(document)
_analyzeStructure(document) ==
  LET sections == document.content["sections"].entries
  IN [totalSections |-> Len(sections),
      sections |-> [i \in 1..Len(sections) |->
                     [name |-> sections[i].heading,
                      wordCount |-> WordCount(sections[i].content),
                      isEmpty |-> IsPlaceholderText(sections[i].content)]]]

positiveWords == <<"agree", "beneficial", "clear", "fair", "reasonable">>
negativeWords == <<"breach", "liable", "penalty", "violation", "dispute">>

\* _analyzeSentiment(document)
_analyzeSentiment(document) ==
  LET contentText == ToLowerCase(_extractAllText(document))
      positiveCount == Len(SelectSeq(positiveWords, LAMBDA w : Includes(contentText, w)))
      negativeCount == Len(SelectSeq(negativeWords, LAMBDA w : Includes(contentText, w)))
  IN [overall |-> IF positiveCount > negativeCount THEN "positive"
                  ELSE IF negativeCount > positiveCount THEN "negative"
                  ELSE "neutral",
      positiveIndicators |-> positiveCount,
      negativeIndicators |-> negativeCount]

\* _identifyRisks(document)
_identifyRisks(document) ==
  LET contentText == _extractAllText(document)
      lowered == ToLowerCase(contentText)
  IN (IF IsPlaceholderText(contentText)
        THEN <<[type |-> "incomplete_content", severity |-> "high",
                description |-> "Document contains placeholder text that needs to be filled"]>>
        ELSE <<>>)
     \o (IF Includes(lowered, "liable")
        THEN <<[type |-> "liability_clause", severity |-> "medium",
                description |-> "Document contains liability provisions"]>>
        ELSE <<>>)
     \o (IF Includes(lowered, "may")
        THEN <<[type |-> "ambiguous_language", severity |-> "low",
                description |-> "Document contains optional language (\"may\")"]>>
        ELSE <<>>)

\* _generateRecommendations(document)
_generateRecommendations(document) ==
  (IF document.metadata.status = "draft"
     THEN <<[priority |-> "high",
             text |-> "Document is still in draft status. Review and finalize before use."]>>
     ELSE <<>>)
  \o (IF ~Truthy(document.metadata.author) \/ document.metadata.author = "System"
     THEN <<[priority |-> "medium", text |-> "Assign proper author to document"]>>
     ELSE <<>>)
  \o (IF document.analysis = Null
     THEN <<[priority |-> "medium",
             text |-> "Run full legal analysis for comprehensive review"]>>
     ELSE <<>>)

\* the vowels /[aeiou]/i matches
IsVowel(c) == c \in {"a", "e", "i", "o", "u", "A", "E", "I", "O", "U"}

\* the number of consecutive vowels that end at position i of text
RECURSIVE VowelRun(_, _)
VowelRun(text, i) ==
  IF i >= 1 /\ IsVowel(At(text, i)) THEN 1 + VowelRun(text, i - 1) ELSE 0

\* _estimateSyllables(text): the matches of /[aeiou]{1,2}/gi; a match takes two
\* vowels when two are there, so a match starts at every odd place of a vowel run
_estimateSyllables(text) ==
  Cardinality({i \in 1..Len(text) : VowelRun(text, i) % 2 = 1})

\* _calculateReadability(document).  readingEase is the rational
\* (206835 s w - 1015 w w - 84600 y s) / (1000 s w) for w words, s sentences and
\* y syllables, clamped to [0, 100]; it is compared and rounded exactly
_calculateReadability(document) ==
  LET contentText == _extractAllText(document)
      words == WordCount(contentText)
      sentences == Len(SplitOn(contentText, {".", "!", "?"}))
      syllables == _estimateSyllables(contentText)
      den == 1000 * sentences * words
      raw == 206835 * sentences * words - 1015 * words * words
               - 84600 * syllables * sentences
      num == IF raw < 0 THEN 0 ELSE IF raw > 100 * den THEN 100 * den ELSE raw
  IN [score |-> (2 * num + den) \div (2 * den),
      difficulty |-> IF num > 80 * den THEN "Easy"
                     ELSE IF num > 50 * den THEN "Medium"
                     ELSE IF num > 30 * den THEN "Difficult"
                     ELSE "Very Difficult",
      wordCount |-> words,
      sentenceCount |-> sentences]

\* analyze(document) at time clock: the Error it throws, or the analysis it returns
analyze(document, clock) ==
  IF ~document.content["sections"].defined
    \* Object.values(undefined) throws in _extractAllText; analyze wraps it
    THEN [error |-> "Analysis failed: Cannot convert undefined or null to object"]
  ELSE
    [error |-> "",
     analysis |->
       [documentId |-> document.id,
        documentType |-> document.type,
        analyzedAt |-> clock,
        summary |-> _generateSummary(document),
        keyPoints |-> _extractKeyPoints(document),
        legalTerms |-> _extractLegalTerms(document),
        sections |-> _analyzeStructure(document),
        sentiment |-> _analyzeSentiment(document),
        risks |-> _identifyRisks(document),
        recommendations |-> _generateRecommendations(document),
        readability |-> _calculateReadability(document)]]

\* --------------------------------------------------------------- CaseManager
\* updateCaseStatus: validStatuses
validStatuses == <<"open", "active", "pending", "closed", "archived">>

\* Array.prototype.includes
ArrayIncludes(q, x) == \E i \in 1..Len(q) : q[i] = x

\* createCase(caseName, metadata): the case object, with uuidv4() = caseId
createCase(caseId, caseName, metadata, clock) ==
  [id |-> caseId,
   name |-> caseName,
   status |-> Or(Get(metadata, "status"), "open"),
   type |-> Or(Get(metadata, "type"), "general"),
   client |-> Or(Get(metadata, "client"), ""),
   opponent |-> Or(Get(metadata, "opponent"), ""),
   courtName |-> Or(Get(metadata, "courtName"), ""),
   caseNumber |-> Or(Get(metadata, "caseNumber"), ""),
   judge |-> Or(Get(metadata, "judge"), ""),
   description |-> Or(Get(metadata, "description"), ""),
   priority |-> Or(Get(metadata, "priority"), "medium"),
   createdAt |-> clock,
   modifiedAt |-> clock,
   createdBy |-> Or(Get(metadata, "createdBy"), "System"),
   dueDate |-> Null,
   documents |-> <<>>,
   folders |-> <<>>,
   tags |-> <<>>,
   customFields |-> EmptyObject]

\* addDocumentToCase, on the case object found
addDocumentToCase(caseObj, documentId, clock) ==
  IF ~ArrayIncludes(caseObj.documents, documentId)
    THEN [caseObj EXCEPT !.documents = Append(@, documentId), !.modifiedAt = clock]
    ELSE caseObj

\* a forEach that tests each id against the list as it was before the call
PushEachUnlisted(list, documentIds) ==
  list \o SelectSeq(documentIds, LAMBDA id : ~ArrayIncludes(list, id))

\* the documents list after the forEach of addDocumentsToCase
PushEachNew(list, documentIds) ==
  LET F[i \in 0..Len(documentIds)] ==
        IF i = 0 THEN list
        ELSE IF ~ArrayIncludes(F[i - 1], documentIds[i])
          THEN Append(F[i - 1], documentIds[i])
          ELSE F[i - 1]
  IN F[Len(documentIds)]

\* addDocumentsToCase, on the case object found
addDocumentsToCase(caseObj, documentIds, clock) ==
  [caseObj EXCEPT !.documents = PushEachNew(@, documentIds), !.modifiedAt = clock]

\* removeDocumentFromCase, on the case object found
removeDocumentFromCase(caseObj, documentId, clock) ==
  [caseObj EXCEPT !.documents = SelectSeq(@, LAMBDA id : id # documentId),
                  !.modifiedAt = clock]

\* updateCaseStatus, on the case object found: the Error it throws and the case after
updateCaseStatus(caseObj, status, clock) ==
  IF ~ArrayIncludes(validStatuses, status)
    THEN [error |-> "Invalid status: " \o status, case |-> caseObj]
    ELSE [error |-> "",
          case |-> [caseObj EXCEPT !.status = status, !.modifiedAt = clock]]

\* this.cases.get(caseId) found nothing
CaseMissing(caseId) == caseId \notin DOMAIN cases

\* ---------------------------------------------------------------- the state
NoResult == [none |-> TRUE]

Init ==
  /\ templates = InitialTemplates
  /\ held = Null
  /\ documents = [d \in {} |-> Null]
  /\ cases = [c \in {} |-> Null]
  /\ caseDocuments = [c \in {} |-> <<>>]
  /\ caseChats = [c \in {} |-> <<>>]
  /\ facadeCases = {}
  /\ now = 0
  /\ nextDoc = 0
  /\ nextCase = 0
  /\ call = [op |-> "new"]
  /\ err = ""
  /\ result = NoResult

\* f with the entry k -> v set: Map.prototype.set
MapSet(f, k, v) == [x \in DOMAIN f \cup {k} |-> IF x = k THEN v ELSE f[x]]

generatorVars == <<templates>>
storeVars == <<cases, caseDocuments, caseChats, facadeCases>>

\* ------------------------------------------------------------------ inputs
\* what callers pass to generate: a document type and a content object
GenerateInputs ==
  [documentType : DOMAIN InitialTemplates \cup {"bogus", "", "constructor", Undefined},
   content : {EmptyObject}]
  \cup
  [documentType : {"contract"},
   content : { ("title" :> "Service Terms") @@ ("author" :> "Ada")
               @@ ("Terms" :> "The counterparty signs all agreements."),
               "Terms" :> "Breach after breach the party may pay damages. Damages! A fair contract",
               ("Terms" :> "[Add exhibits here] pending") @@ ("Header" :> "")
               @@ ("Parties" :> "Add here") }]
  \cup
  [documentType : {"agreement"},
   content : { ("Preamble" :> "The seller is liable.") @@ ("Recitals" :> "None")
               @@ ("Terms and Conditions" :> "Void?") @@ ("Signatures" :> "Signed") }]

\* what callers pass to updateDocument
UpdateInputs ==
  { ("title" :> "Amended") @@ ("id" :> "forged") @@ ("version" :> "9"),
    "sections" :> [defined |-> TRUE,
                   entries |-> <<[heading |-> "Body",
                                  content |-> "The party shall agree.",
                                  timestamp |-> 0]>>],
    "sections" :> [defined |-> FALSE] }

\* -------------------------------------------- DocumentGenerator, as actions
\* generate(options), called on the generator itself; the caller keeps the
\* document it returns in place of the one it held
Generate(in) ==
  LET options == [caseId |-> Undefined, documentType |-> in.documentType,
                  content |-> in.content, timestamp |-> now]
  IN /\ nextDoc < MaxGenerated
     /\ call' = [op |-> "generate", documentType |-> in.documentType,
                 content |-> in.content]
     /\ \E r \in {generate(options, Uuid("doc-", nextDoc + 1), now)} :
          /\ err' = r.error
          /\ IF r.error = ""
               THEN /\ held' = r.document
                    /\ result' = r.document
               ELSE /\ result' = NoResult
                    /\ UNCHANGED held
          /\ nextDoc' = nextDoc + r.uuids
     /\ UNCHANGED <<generatorVars, storeVars, documents, now, nextCase>>

\* updateDocument(document, updates) on the document held
UpdateDocument(updates) ==
  /\ held # Null
  /\ held.version < MaxVersion
  /\ held' = updateDocument(held, updates, now)
  /\ call' = [op |-> "updateDocument", id |-> held.id]
  /\ err' = ""
  /\ result' = held'
  /\ UNCHANGED <<generatorVars, storeVars, documents, now, nextDoc, nextCase>>

\* ---------------------------------------------- DocumentAnalyzer, as actions
\* an analyze that stores what it returns in the document's analysis slot
AnalyzeAttaching ==
  /\ held # Null
  /\ call' = [op |-> "analyze", id |-> held.id]
  /\ \E r \in {analyze(held, now)} :
       /\ err' = r.error
       /\ result' = IF r.error = "" THEN r.analysis ELSE NoResult
       /\ held' = IF r.error = "" THEN [held EXCEPT !.analysis = r.analysis] ELSE held
  /\ UNCHANGED <<generatorVars, storeVars, documents, now, nextDoc, nextCase>>

\* analyze(document) on the document held
Analyze ==
  /\ held # Null
  /\ call' = [op |-> "analyze", id |-> held.id]
  /\ \E r \in {analyze(held, now)} :
       /\ err' = r.error
       /\ result' = IF r.error = "" THEN r.analysis ELSE NoResult
  /\ UNCHANGED <<generatorVars, storeVars, held, documents, now, nextDoc, nextCase>>

\* time passes between two calls
Tick ==
  /\ now < MaxTime
  /\ now' = now + 1
  /\ UNCHANGED <<generatorVars, storeVars, held, documents, nextDoc, nextCase,
                 call, err, result>>

NextDoc ==
  \/ \E in \in GenerateInputs : Generate(in)
  \/ \E updates \in UpdateInputs : UpdateDocument(updates)
  \/ Analyze
  \/ Tick

SpecDoc == Init /\ [][NextDoc]_vars

\* ----------------------------------------------------- CaseManager, as actions
\* the case ids callers pass: those uuidv4() hands out sooner or later, and one
\* it never does
CaseIdInputs == {Uuid("case-", n) : n \in 1..MaxCases} \cup {"case-x"}

\* the document ids callers pass to the case manager
DocIdInputs == {"doc-1", "doc-2"}

\* the documentIds lists callers pass to addDocumentsToCase
DocIdListInputs ==
  {<<>>} \cup {<<d>> : d \in DocIdInputs} \cup {<<d, e>> : d \in DocIdInputs, e \in DocIdInputs}

\* what callers pass as the metadata of createCase
MetadataInputs == {EmptyObject, "status" :> "", "status" :> "on hold"}

\* what callers pass as the status of updateCaseStatus
StatusInputs == {"closed", "on hold"}

\* the call found no case and returns as if there were nothing to do
IgnoreCaseNotFound ==
  /\ err' = ""
  /\ result' = NoResult
  /\ UNCHANGED <<generatorVars, storeVars, held, documents, now, nextDoc, nextCase>>

\* the call found no case: it throws, and nothing else happens
ThrowCaseNotFound ==
  /\ err' = "Case not found"
  /\ result' = NoResult
  /\ UNCHANGED <<generatorVars, storeVars, held, documents, now, nextDoc, nextCase>>

\* the call returned r and left the case objects as they are
Return(r) ==
  /\ err' = ""
  /\ result' = r
  /\ UNCHANGED <<generatorVars, storeVars, held, documents, now, nextDoc, nextCase>>

\* the call changed the case object with this id into caseObj and returned it
ReturnCase(caseId, caseObj) ==
  /\ err' = ""
  /\ result' = caseObj
  /\ cases' = [cases EXCEPT ![caseId] = caseObj]
  /\ UNCHANGED <<generatorVars, caseDocuments, caseChats, facadeCases, held,
                 documents, now, nextDoc, nextCase>>

\* CaseManager.addDocumentToCase(caseId, documentId)
AddDocumentToCase(caseId, documentId) ==
  /\ call' = [op |-> "addDocumentToCase", caseId |-> caseId, documentId |-> documentId]
  /\ IF CaseMissing(caseId) THEN ThrowCaseNotFound
     ELSE ReturnCase(caseId, addDocumentToCase(cases[caseId], documentId, now))

\* CaseManager.addDocumentsToCase(caseId, documentIds)
AddDocumentsToCase(caseId, documentIds) ==
  /\ call' = [op |-> "addDocumentsToCase", caseId |-> caseId]
  /\ IF CaseMissing(caseId) THEN ThrowCaseNotFound
     ELSE ReturnCase(caseId, addDocumentsToCase(cases[caseId], documentIds, now))

\* CaseManager.getDocuments(caseId)
GetDocuments(caseId) ==
  /\ call' = [op |-> "getDocuments", caseId |-> caseId]
  /\ IF CaseMissing(caseId) THEN ThrowCaseNotFound
     ELSE Return([documents |-> cases[caseId].documents])

\* CaseManager.removeDocumentFromCase(caseId, documentId)
RemoveDocumentFromCase(caseId, documentId) ==
  /\ call' = [op |-> "removeDocumentFromCase", caseId |-> caseId]
  /\ IF CaseMissing(caseId) THEN ThrowCaseNotFound
     ELSE ReturnCase(caseId, removeDocumentFromCase(cases[caseId], documentId, now))

\* CaseManager.updateCaseStatus(caseId, status)
UpdateCaseStatus(caseId, status) ==
  /\ call' = [op |-> "updateCaseStatus", caseId |-> caseId]
  /\ IF CaseMissing(caseId) THEN ThrowCaseNotFound
     ELSE LET r == updateCaseStatus(cases[caseId], status, now)
          IN IF r.error = "" THEN ReturnCase(caseId, r.case)
             ELSE /\ err' = r.error
                  /\ result' = NoResult
                  /\ UNCHANGED <<generatorVars, storeVars, held, documents, now,
                                 nextDoc, nextCase>>

\* CaseManager.getCase(caseId)
GetCase(caseId) ==
  /\ call' = [op |-> "getCase", caseId |-> caseId]
  /\ IF CaseMissing(caseId) THEN ThrowCaseNotFound ELSE Return(cases[caseId])

\* ------------------------------------------- LegalDocumentManager, as actions
\* the facade's createDocument(caseId, documentType, content) with uuidv4() = id:
\* the message of the Error it throws, and the documents Map and the case
\* objects as it leaves them
createDocument(caseId, documentType, content, id, clock) ==
  LET g == generate([caseId |-> caseId, documentType |-> documentType,
                     content |-> content, timestamp |-> clock], id, clock)
  IN IF g.error # ""
       THEN [error |-> g.error, uuids |-> g.uuids, documents |-> documents,
             cases |-> cases]
     ELSE LET stored == MapSet(documents, id, g.document)
          IN IF ~Truthy(caseId)
               THEN [error |-> "", uuids |-> g.uuids, documents |-> stored,
                     cases |-> cases, document |-> g.document]
             ELSE IF CaseMissing(caseId)
               THEN [error |-> "Case not found", uuids |-> g.uuids,
                     documents |-> stored, cases |-> cases]
             ELSE [error |-> "", uuids |-> g.uuids, documents |-> stored,
                   cases |-> [cases EXCEPT ![caseId] =
                                addDocumentToCase(@, id, clock)],
                   document |-> g.document]

\* LegalDocumentManager.createDocument(caseId, documentType, content)
CreateDocument(caseId, documentType, content) ==
  LET id == Uuid("doc-", nextDoc + 1)
  IN /\ nextDoc < MaxDocs
     /\ call' = [op |-> "createDocument", caseId |-> caseId,
                 documentType |-> documentType]
     /\ \E r \in {createDocument(caseId, documentType, content, id, now)} :
          /\ err' = r.error
          /\ result' = IF r.error = ""
                         THEN [success |-> TRUE, document |-> r.document]
                         ELSE NoResult
          /\ documents' = r.documents
          /\ cases' = r.cases
          /\ nextDoc' = nextDoc + r.uuids
     /\ UNCHANGED <<generatorVars, caseDocuments, caseChats, facadeCases, held,
                    now, nextCase>>

\* LegalDocumentManager.createCase(caseName, metadata), which calls
\* CaseManager.createCase(caseName, metadata)
CreateCase(caseName, metadata) ==
  LET caseId == Uuid("case-", nextCase + 1)
      caseObj == createCase(caseId, caseName, metadata, now)
  IN /\ nextCase < MaxCases
     /\ call' = [op |-> "createCase", caseId |-> caseId]
     /\ err' = ""
     /\ result' = [success |-> TRUE, case |-> caseObj]
     /\ cases' = MapSet(cases, caseId, caseObj)
     /\ caseDocuments' = MapSet(caseDocuments, caseId, <<>>)
     /\ caseChats' = MapSet(caseChats, caseId, <<>>)
     /\ facadeCases' = facadeCases \cup {caseId}
     /\ nextCase' = nextCase + 1
     /\ UNCHANGED <<generatorVars, held, documents, now, nextDoc>>

\* the case ids and document types callers pass to createDocument
CreateDocumentCaseInputs == {Uuid("case-", n) : n \in 1..MaxCases} \cup {Undefined}
CreateDocumentTypeInputs == {"memo", "bogus", "constructor", Undefined}

NextStore ==
  \/ \E metadata \in MetadataInputs : CreateCase("Smith v. Jones", metadata)
  \/ \E c \in CaseIdInputs, d \in DocIdInputs : AddDocumentToCase(c, d)
  \/ \E c \in CaseIdInputs, ds \in DocIdListInputs : AddDocumentsToCase(c, ds)
  \/ \E c \in CaseIdInputs : GetDocuments(c)
  \/ \E c \in CaseIdInputs, d \in DocIdInputs : RemoveDocumentFromCase(c, d)
  \/ \E c \in CaseIdInputs, st \in StatusInputs : UpdateCaseStatus(c, st)
  \/ \E c \in CaseIdInputs : GetCase(c)
  \/ \E c \in CreateDocumentCaseInputs, t \in CreateDocumentTypeInputs :
       CreateDocument(c, t, EmptyObject)

SpecStore == Init /\ [][NextStore]_vars


\* =================================================================== claims
\* the sections of a document, in order
SectionsOf(doc) == doc.content["sections"].entries

\* every section of doc holds the placeholder of its heading
PlaceholderOnly(doc) ==
  \A i \in 1..Len(SectionsOf(doc)) :
    SectionsOf(doc)[i].content = "[Add " \o SectionsOf(doc)[i].heading \o " content here]"

\* C1: updateDocument(document, updates) increases document.version by exactly 1
\* and sets metadata.modified to the time of the call, and leaves document.id and
\* metadata.created as they were; generate returns a document of version 1
\* created at the time of the call. So n updates of a generated document leave
\* version = 1 + n, and id and created as generated.
C1_UpdateDocumentFrame ==
  [][ /\ (call'.op = "updateDocument" /\ now' = now) =>
           /\ held'.version = held.version + 1
           /\ held'.metadata.modified = now
           /\ held'.id = held.id
           /\ held'.metadata.created = held.metadata.created
      /\ (call'.op = "generate" /\ now' = now /\ err' = "") =>
           /\ held'.version = 1
           /\ held'.metadata.created = now ]_vars

\* C1 witness: a document updated twice, the last time with an updates object
\* that carries an id, after time has passed since it was generated
C1_Witness ==
  /\ call.op = "updateDocument"
  /\ held.version = 3
  /\ held.metadata.created < held.metadata.modified
  /\ "id" \in DOMAIN held.content
  /\ held.content["id"] # held.id

\* C2: createDocument (and so the generate it calls) with a documentType that is
\* given and is not a key of the template registry fails with an error and
\* creates no document: the documents map and every case's documents list are
\* after the call what they were before it.
C2_UnknownTypeCreatesNothing ==
  [][ (/\ call'.op = "createDocument"
       /\ call'.documentType # Undefined
       /\ call'.documentType \notin DOMAIN templates)
      => /\ err' # ""
         /\ documents' = documents
         /\ cases' = cases ]_vars

\* C2 witness: createDocument for an existing case failed on a type that is no
\* key of the registry though every object has a property of that name
C2_Witness ==
  /\ call.op = "createDocument"
  /\ call.documentType = "constructor"
  /\ call.caseId \in DOMAIN cases
  /\ err # ""

\* no case lists a document id twice
NoDuplicateDocuments ==
  \A c \in DOMAIN cases :
    \A i, j \in 1..Len(cases[c].documents) :
      cases[c].documents[i] = cases[c].documents[j] => i = j

\* C3: after any sequence of createCase, addDocumentToCase, addDocumentsToCase
\* and removeDocumentFromCase no case's documents list holds the same id twice,
\* and addDocumentToCase with an id already listed leaves the list as it was.
C3_IdempotentAdd ==
  /\ []NoDuplicateDocuments
  /\ [][ (/\ call'.op = "addDocumentToCase"
          /\ err' = ""
          /\ ArrayIncludes(cases[call'.caseId].documents, call'.documentId))
         => cases'[call'.caseId].documents = cases[call'.caseId].documents ]_vars

\* C3 witness: addDocumentToCase returned for an id that is not the last of a
\* list of two, so the id was listed before the call
C3_Witness ==
  /\ call.op = "addDocumentToCase"
  /\ err = ""
  /\ Len(cases[call.caseId].documents) = 2
  /\ cases[call.caseId].documents[1] = call.documentId

\* the operations of the case manager that take a case id
CaseIdOperations ==
  {"addDocumentToCase", "addDocumentsToCase", "getDocuments",
   "removeDocumentFromCase", "updateCaseStatus", "getCase"}

\* C4: every case manager operation that takes a case id, called with an id
\* that is not in the store, throws 'Case not found' and leaves the store (the
\* cases, their status and their documents lists) as it was.
C4_CaseNotFoundReported ==
  [][ (call'.op \in CaseIdOperations /\ call'.caseId \notin DOMAIN cases)
      => /\ err' = "Case not found"
         /\ cases' = cases
         /\ caseDocuments' = caseDocuments
         /\ caseChats' = caseChats ]_vars

\* C4 witness: removeDocumentFromCase threw 'Case not found' while the store
\* holds a case that lists a document
C4_Witness ==
  /\ call.op = "removeDocumentFromCase"
  /\ err = "Case not found"
  /\ \E c \in DOMAIN cases : cases[c].documents # <<>>

\* C5: after a successful analyze(document) the document's analysis slot holds
\* the result returned, and that is the only change to the document.
C5_AnalysisAttached ==
  [][ (call'.op = "analyze" /\ now' = now /\ err' = "")
      => /\ held'.analysis # Null
         /\ held'.analysis = result'
         /\ held'.content = held.content
         /\ held'.metadata = held.metadata
         /\ held'.version = held.version ]_vars

\* two analyze calls in a row, both returning, with no other call between them
ConsecutiveAnalyses ==
  /\ call.op = "analyze" /\ err = ""
  /\ call'.op = "analyze" /\ err' = ""
  /\ call'.id = call.id
  /\ now' = now

\* C6, as claimed: two consecutive analyze calls on a document that was not
\* updated between them return results identical in every field.
C6_AnalyzeDeterministic ==
  [][ ConsecutiveAnalyses => result' = result ]_vars

\* C6, amended: two consecutive analyze calls on a document that was not updated
\* between them return results identical in every field but analyzedAt, which
\* is the time of each call.
C6_AnalyzeDeterministicButAnalyzedAt ==
  [][ ConsecutiveAnalyses
      => /\ [result' EXCEPT !.analyzedAt = 0] = [result EXCEPT !.analyzedAt = 0]
         /\ result'.analyzedAt = now ]_vars

\* C6 witness: an analysis returned at a later time than the document was last
\* modified
C6_Witness ==
  /\ call.op = "analyze"
  /\ err = ""
  /\ result.analyzedAt > held.metadata.modified
  /\ result.recommendations # <<>>

\* C7: a document generated with no content overrides has, for every section
\* name S of its template in template order, the content "[Add S content here]";
\* the analysis of a document whose sections all hold their placeholder reports
\* incomplete_content with severity high as its first risk and isEmpty for every
\* section; and for any document analysed, a section's isEmpty is true exactly
\* when its text contains both "[Add" and "here]".
C7_PlaceholdersReported ==
  /\ (call.op = "generate" /\ err = "" /\ call.content = EmptyObject) =>
       /\ Len(SectionsOf(result)) = Len(templates[result.type].sections)
       /\ \A i \in 1..Len(SectionsOf(result)) :
            /\ SectionsOf(result)[i].heading = templates[result.type].sections[i]
            /\ SectionsOf(result)[i].content =
                 "[Add " \o templates[result.type].sections[i] \o " content here]"
  /\ (call.op = "analyze" /\ err = "") =>
       /\ PlaceholderOnly(held) =>
            /\ result.risks # <<>>
            /\ result.risks[1].type = "incomplete_content"
            /\ result.risks[1].severity = "high"
            /\ \A i \in 1..Len(result.sections.sections) :
                 result.sections.sections[i].isEmpty
       /\ Len(result.sections.sections) = Len(SectionsOf(held))
       /\ \A i \in 1..Len(SectionsOf(held)) :
            result.sections.sections[i].isEmpty
              <=> (/\ Includes(SectionsOf(held)[i].content, "[Add")
                   /\ Includes(SectionsOf(held)[i].content, "here]"))

\* C7 witness: the analysis of a memo generated with no content overrides
C7_Witness ==
  /\ call.op = "analyze"
  /\ err = ""
  /\ held.type = "memo"
  /\ held.version = 1
  /\ PlaceholderOnly(held)
  /\ result.sections.totalSections = 7
  /\ result.risks[1].type = "incomplete_content"

\* the place of a term in the fixed list
TermIndex(term) == CHOOSE k \in 1..Len(commonLegalTerms) : commonLegalTerms[k] = term

C9_StatusInEnum ==
  \A c \in DOMAIN cases : ArrayIncludes(validStatuses, cases[c].status)

\* C10: createDocument is all-or-nothing: when it throws, the documents map is
\* what it was, and a document it stores with a case id is in that case's
\* documents list.
C10_CreateDocumentAllOrNothing ==
  [][ call'.op = "createDocument"
      => /\ err' # "" => documents' = documents
         /\ \A d \in DOMAIN documents' \ DOMAIN documents :
              Truthy(documents'[d].caseId)
                => /\ documents'[d].caseId \in DOMAIN cases'
                   /\ ArrayIncludes(cases'[documents'[d].caseId].documents, d) ]_vars

====
